---- MODULE Spec2Model ----
(***************************************************************************)
(* Model of buildbot/status/status_gerrit.py: GerritStatusPush, the status *)
(* receiver that runs "ssh ... gerrit review" for every change listed in   *)
(* the "downloads" property of a finished build.                           *)
(*                                                                         *)
(* Python strings are modelled as sequences of one-character strings, so   *)
(* that str.split, "%s" formatting and str(int) are computed, not assumed. *)
(* An argument vector is a sequence of such strings.                       *)
(***************************************************************************)
EXTENDS Integers, Sequences, FiniteSets, TLC

VARIABLES
    gerritserver,  \* self.gerritserver (line 48)
    username,      \* self.username (line 49)
    gerritport,    \* self.gerritport (line 51)
    nbuilds,       \* the number of buildFinished calls so far
    call,          \* the last buildFinished call: its build, the property it
                   \* read, the policy result, what it did in order (messageCB,
                   \* print, spawnProcess) and how it ended
    procs,         \* the spawned processes still running (line 100)
    console,       \* the last line printed (lines 58, 61, 65, 67, 99)
    lastStatus,    \* the status_object of the last processEnded (line 63)
    parent,        \* self.parent, set by setServiceParent (line 71)
    watchers,      \* how many times the host's status service has this
                   \* receiver subscribed (line 73)
    answers        \* what builderAdded returned for each announced builder

config == <<gerritserver, username, gerritport>>
host == <<parent, watchers, answers>>
vars == <<gerritserver, username, gerritport, nbuilds, call, procs, console,
          lastStatus, parent, watchers, answers>>

(***************************************************************************)
(* Bounds of the exploration.                                              *)
(***************************************************************************)
MaxBuilds == 2
MaxDownloads == 2
MaxTokenLen == 4
MaxMessageLen == 2

(***************************************************************************)
(* Program constants.                                                      *)
(***************************************************************************)
DefaultPort == 29418

(***************************************************************************)
(* String helpers (Python semantics).                                      *)
(***************************************************************************)
Digit(d) == CASE d = 0 -> "0" [] d = 1 -> "1" [] d = 2 -> "2" [] d = 3 -> "3"
              [] d = 4 -> "4" [] d = 5 -> "5" [] d = 6 -> "6" [] d = 7 -> "7"
              [] d = 8 -> "8" [] d = 9 -> "9"

RECURSIVE NatToStr(_)
NatToStr(n) == IF n < 10 THEN <<Digit(n)>>
               ELSE Append(NatToStr(n \div 10), Digit(n % 10))

\* str(n) for a Python int
IntToStr(n) == IF n < 0 THEN <<"-">> \o NatToStr(0 - n) ELSE NatToStr(n)

\* s.split(sep) with an explicit one-character separator: every occurrence
\* of sep ends a field, so adjacent separators give empty fields.
RECURSIVE SplitOn(_, _)
SplitOn(s, sep) ==
    IF \A i \in 1..Len(s) : s[i] /= sep
    THEN <<s>>
    ELSE LET i == CHOOSE k \in 1..Len(s) :
                      s[k] = sep /\ \A j \in 1..(k - 1) : s[j] /= sep
         IN  <<SubSeq(s, 1, i - 1)>> \o SplitOn(SubSeq(s, i + 1, Len(s)), sep)

\* xs[:2]
FirstTwo(xs) == SubSeq(xs, 1, IF Len(xs) < 2 THEN Len(xs) ELSE 2)

\* truth value of a Python str / int
StrTruthy(s) == s /= <<>>
IntTruthy(n) == n /= 0

(***************************************************************************)
(* String literals of the source.                                          *)
(***************************************************************************)
S_ssh == <<"s", "s", "h">>
S_p == <<"-", "p">>
S_gerrit == <<"g", "e", "r", "r", "i", "t">>
S_review == <<"r", "e", "v", "i", "e", "w">>
S_project == <<"-", "-", "p", "r", "o", "j", "e", "c", "t">>
S_messageOpen == <<"-", "-", "m", "e", "s", "s", "a", "g", "e", " ", "'">>
S_quote == <<"'">>
S_verified == <<"-", "-", "v", "e", "r", "i", "f", "i", "e", "d">>
S_codeReview == <<"-", "-", "c", "o", "d", "e", "-", "r", "e", "v", "i", "e", "w">>

(***************************************************************************)
(* Inputs of the exploration.                                              *)
(***************************************************************************)
\* "projA 12345/3", "projB bad", and "projC" (a token with no second field)
TokA == <<"p", "r", "o", "j", "A", " ", "1", "2", "3", "4", "5", "/", "3">>
TokB == <<"p", "r", "o", "j", "B", " ", "b", "a", "d">>
TokC == <<"p", "r", "o", "j", "C">>

S_projA == <<"p", "r", "o", "j", "A">>
S_projB == <<"p", "r", "o", "j", "B">>
S_12345 == <<"1", "2", "3", "4", "5">>
S_bad == <<"b", "a", "d">>
S_OK == <<"O", "K">>

\* build.getProperty("downloads"): raises KeyError, returns None, or a list
PropAbsent == [kind |-> "absent", list |-> <<>>]
PropNone == [kind |-> "none", list |-> <<>>]
PropList(l) == [kind |-> "list", list |-> l]

PropsOf(lists) == {PropAbsent, PropNone} \cup {PropList(l) : l \in lists}

\* the builds of a run of several events
ScenarioLists == {<<>>, <<TokA>>, <<TokC>>, <<TokA, TokB>>, <<TokA, TokC>>,
                  <<TokC, TokA>>, <<TokB, TokC, TokA>>}

\* the builds of a run of one event: every list of up to MaxDownloads tokens,
\* every one-token list over TokenChars, every message over MessageChars
Tokens == {TokA, TokB, TokC}
StringsOver(chars, n) == UNION {[1..k -> chars] : k \in 0..n}
DownloadLists == StringsOver(Tokens, MaxDownloads)
TokenChars == {"a", "7", " ", "/", "\t"}
TokenLists == {<<t>> : t \in StringsOver(TokenChars, MaxTokenLen)}
MessageChars == {"m", "'", " "}
RichMessages == StringsOver(MessageChars, MaxMessageLen)

\* what self.messageCB(builderName, build, results) may return
Result(m, v, r) == [message |-> m, verified |-> v, reviewed |-> r]
Scores == {-1, 0, 1}
Messages == {<<>>, S_OK}
PolicyResults == {Result(m, v, r) : m \in Messages, v \in Scores, r \in Scores}
NoResult == Result(<<>>, 0, 0)

\* the results explored in a run of several events: either message, with no
\* score, a positive verified or a negative reviewed
ScenarioResults == {Result(m, sc[1], sc[2]) :
                        m \in Messages, sc \in {<<0, 0>>, <<1, 0>>, <<0, -1>>}}

\* termination statuses handed to processEnded: status_object.value.exitCode
\* is an int, or None when the process was killed by a signal
Exit(code) == [hasCode |-> TRUE, exitCode |-> code, signal |-> 0]
Killed(sig) == [hasCode |-> FALSE, exitCode |-> 0, signal |-> sig]
Statuses == {Exit(0), Exit(1), Killed(9)}
NoStatus == [hasCode |-> FALSE, exitCode |-> 0, signal |-> 0]
Chunks == {<<"d">>}

(***************************************************************************)
(* defaultMessageCB, lines 27-32.                                          *)
(***************************************************************************)
S_finished ==
    <<"b", "u", "i", "l", "d", "b", "o", "t", " ", "f", "i", "n", "i", "s",
      "h", "e", "d", " ", "c", "o", "m", "p", "i", "l", "i", "n", "g", " ",
      "y", "o", "u", "r", " ", "p", "a", "t", "c", "h", "s", "e", "t",
      "\n">>
S_onConfiguration ==
    <<"o", "n", " ", "c", "o", "n", "f", "i", "g", "u", "r", "a", "t", "i",
      "o", "n", " ">>
S_theResultIs ==
    <<"t", "h", "e", " ", "r", "e", "s", "u", "l", "t", " ", "i", "s", " ">>
S_moreDetails ==
    <<"m", "o", "r", "e", " ", "d", "e", "t", "a", "i", "l", "s", ":", " ",
      "h", "t", "t", "p", ":", "/", "/">>
S_builders ==
    <<":", "8", "0", "1", "0", "/", "b", "u", "i", "l", "d", "e", "r", "s",
      "/">>
S_builds ==
    <<"/", "b", "u", "i", "l", "d", "s", "/">>

\* os.uname()[1], the node name of the machine the master runs on
NodeName == <<"b", "b">>

defaultMessageCBScored(buildername, number, results) ==
    Result(S_finished \o S_onConfiguration \o buildername,
           IF results = 0 THEN 1 ELSE -1, 0)

\* buildername is a string, number is build.getNumber(), results an int
defaultMessageCB(buildername, number, results) ==
    Result(S_finished
           \o S_onConfiguration \o buildername \o <<" ">>
           \o S_theResultIs \o IntToStr(results) \o <<"\n">>
           \o S_moreDetails \o NodeName \o S_builders \o buildername
           \o S_builds \o IntToStr(number) \o <<"\n">>,
           0, 0)

(***************************************************************************)
(* buildFinished, lines 78-100.                                            *)
(***************************************************************************)
Event(ev, idx, cmd) == [ev |-> ev, idx |-> idx, cmd |-> cmd]
Raise(exc) == [raised |-> exc, cmd |-> <<>>]

ChangeIdLast(patch) == LET segs == SplitOn(patch, "/") IN segs[Len(segs)]

\* changeid = patch.split("/")[0]
ChangeId(patch) == SplitOn(patch, "/")[1]

\* command.append("--message '%s'" % message)
MessageArgs(message) == <<S_messageOpen \o message \o S_quote>>

\* the list literal of lines 90-91
CommandHead(project) ==
    <<S_ssh, username \o <<"@">> \o gerritserver, S_p, IntToStr(gerritport),
      S_gerrit, S_review, S_project, project>>

\* the fields of s.split(): cut at runs of blanks, no empty fields
RECURSIVE WsScan(_, _, _, _)
WsScan(s, i, cur, acc) ==
    LET closed == IF cur = <<>> THEN acc ELSE Append(acc, cur)
    IN  IF i > Len(s) THEN closed
        ELSE IF s[i] \in {" ", "\t"} THEN WsScan(s, i + 1, <<>>, closed)
        ELSE WsScan(s, i + 1, Append(cur, s[i]), acc)
WsFields(s) == WsScan(s, 1, <<>>, <<>>)

BuildCommandWhitespace(download, res) ==
    LET fields == FirstTwo(WsFields(download))
    IN  IF Len(fields) /= 2
        THEN Raise("ValueError")
        ELSE LET command == CommandHead(fields[1]) \o
                            (IF StrTruthy(res.message)
                             THEN MessageArgs(res.message) ELSE <<>>)
             IN  IF IntTruthy(res.verified) THEN Raise("TypeError")
                 ELSE IF IntTruthy(res.reviewed) THEN Raise("TypeError")
                 ELSE [raised |-> "none",
                       cmd |-> Append(command, SplitOn(fields[2], "/")[1])]

BuildCommandStrictPatch(download, res) ==
    LET fields == FirstTwo(SplitOn(download, " "))
    IN  IF Len(fields) /= 2 \/ Len(SplitOn(fields[2], "/")) /= 2
        THEN Raise("ValueError")
        ELSE LET command == CommandHead(fields[1]) \o
                            (IF StrTruthy(res.message)
                             THEN MessageArgs(res.message) ELSE <<>>)
             IN  IF IntTruthy(res.verified) THEN Raise("TypeError")
                 ELSE IF IntTruthy(res.reviewed) THEN Raise("TypeError")
                 ELSE [raised |-> "none",
                       cmd |-> Append(command, SplitOn(fields[2], "/")[1])]

\* The body of the for loop up to the spawn, lines 88-98: the command built
\* for one download, or the exception the body raises.
\*   line 88: unpacking fewer than two fields raises ValueError
\*   lines 95, 97: command.extend[...] subscripts a bound method: TypeError
BuildCommand(download, res) ==
    LET fields == FirstTwo(SplitOn(download, " "))
    IN  IF Len(fields) /= 2
        THEN Raise("ValueError")
        ELSE LET project == fields[1]
                 patch == fields[2]
                 changeid == ChangeId(patch)
                 command == CommandHead(project) \o
                            (IF StrTruthy(res.message)
                             THEN MessageArgs(res.message) ELSE <<>>)
             IN  IF IntTruthy(res.verified) THEN Raise("TypeError")
                 ELSE IF IntTruthy(res.reviewed) THEN Raise("TypeError")
                 ELSE [raised |-> "none", cmd |-> Append(command, changeid)]

RECURSIVE ForDownloadsPolicyPerToken(_, _, _, _, _)
ForDownloadsPolicyPerToken(downloads, i, res, failAt, trace) ==
    IF i > Len(downloads)
    THEN [trace |-> trace, outcome |-> "returned"]
    ELSE LET step == BuildCommand(downloads[i], res)
             asked == IF i = 1 THEN trace
                      ELSE Append(trace, Event("messageCB", 0, <<>>))
         IN  IF step.raised /= "none"
             THEN [trace |-> asked, outcome |-> step.raised]
             ELSE LET printed == Append(asked, Event("print", i, step.cmd))
                  IN  IF failAt = i
                      THEN [trace |-> printed, outcome |-> "OSError"]
                      ELSE ForDownloadsPolicyPerToken(downloads, i + 1, res, failAt,
                               Append(printed, Event("spawnProcess", i, step.cmd)))

RECURSIVE ForDownloadsAllOrNothing(_, _, _, _, _)
ForDownloadsAllOrNothing(downloads, i, res, failAt, trace) ==
    LET bad == {j \in i..Len(downloads) :
                   BuildCommand(downloads[j], res).raised /= "none"}
    IN  IF bad /= {}
        THEN [trace |-> trace,
              outcome |-> BuildCommand(downloads[CHOOSE j \in bad :
                              \A k \in bad : j <= k], res).raised]
        ELSE IF i > Len(downloads)
        THEN [trace |-> trace, outcome |-> "returned"]
        ELSE LET cmd == BuildCommand(downloads[i], res).cmd
                 printed == Append(trace, Event("print", i, cmd))
             IN  IF failAt = i
                 THEN [trace |-> printed, outcome |-> "OSError"]
                 ELSE ForDownloadsAllOrNothing(downloads, i + 1, res, failAt,
                          Append(printed, Event("spawnProcess", i, cmd)))

RECURSIVE ForDownloadsSpawnTwice(_, _, _, _, _)
ForDownloadsSpawnTwice(downloads, i, res, failAt, trace) ==
    IF i > Len(downloads)
    THEN [trace |-> trace, outcome |-> "returned"]
    ELSE LET step == BuildCommand(downloads[i], res)
         IN  IF step.raised /= "none"
             THEN [trace |-> trace, outcome |-> step.raised]
             ELSE LET printed == Append(trace, Event("print", i, step.cmd))
                  IN  IF failAt = i
                      THEN [trace |-> printed, outcome |-> "OSError"]
                      ELSE ForDownloadsSpawnTwice(downloads, i + 1, res, failAt,
                               printed \o <<Event("spawnProcess", i, step.cmd),
                                            Event("spawnProcess", i, step.cmd)>>)

\* for download in downloads: ..., lines 87-100.  failAt is the position at
\* which reactor.spawnProcess raises (0: it never does).
RECURSIVE ForDownloads(_, _, _, _, _)
ForDownloads(downloads, i, res, failAt, trace) ==
    IF i > Len(downloads)
    THEN [trace |-> trace, outcome |-> "returned"]
    ELSE LET step == BuildCommand(downloads[i], res)
         IN  IF step.raised /= "none"
             THEN [trace |-> trace, outcome |-> step.raised]
             ELSE LET printed == Append(trace, Event("print", i, step.cmd))
                  IN  IF failAt = i
                      THEN [trace |-> printed, outcome |-> "OSError"]
                      ELSE ForDownloads(downloads, i + 1, res, failAt,
                               Append(printed, Event("spawnProcess", i, step.cmd)))

NoDownloadsAbsentOnly(prop) == prop.kind = "absent"

\* lines 80-85: no downloads property, or a None one
NoDownloads(prop) == prop.kind = "absent" \/ prop.kind = "none"

\* the whole handler: what it did, in order, and how it ended
Handle(prop, res, failAt) ==
    IF NoDownloads(prop)
    THEN [trace |-> <<>>, outcome |-> "returned"]
    ELSE ForDownloads(prop.list, 1, res, failAt, <<Event("messageCB", 0, <<>>)>>)

EventsOf(trace, ev) == {i \in 1..Len(trace) : trace[i].ev = ev}
Last(S) == CHOOSE i \in S : \A j \in S : j <= i

Line(tag, text) == [tag |-> tag, text |-> text]

BuildFinished(prop, res, failAt) ==
    /\ nbuilds < MaxBuilds
    /\ nbuilds' = nbuilds + 1
    /\ LET r == Handle(prop, res, failAt)
           spawned == EventsOf(r.trace, "spawnProcess")
           prints == EventsOf(r.trace, "print")
       IN  /\ call' = [build |-> nbuilds + 1, prop |-> prop,
                       result |-> IF NoDownloads(prop) THEN NoResult ELSE res,
                       trace |-> r.trace, outcome |-> r.outcome]
           /\ procs' = procs \cup {[build |-> nbuilds + 1, idx |-> r.trace[i].idx,
                                    cmd |-> r.trace[i].cmd] : i \in spawned}
           /\ console' = IF prints = {} THEN console
                         ELSE Line("command", r.trace[Last(prints)].cmd)
    /\ UNCHANGED <<config, lastStatus, host>>

(***************************************************************************)
(* LocalPP, lines 53-67: the protocol of one spawned process.              *)
(***************************************************************************)
OutReceived(p, data) ==
    /\ p \in procs
    /\ console' = Line("gerritout:", <<data>>)
    /\ UNCHANGED <<config, nbuilds, call, procs, lastStatus, host>>

ErrReceived(p, data) ==
    /\ p \in procs
    /\ console' = Line("gerriterr:", <<data>>)
    /\ UNCHANGED <<config, nbuilds, call, procs, lastStatus, host>>

\* if status_object.value.exitCode: (None and 0 are both false)
ExitCodeTruthy(st) == st.hasCode /\ IntTruthy(st.exitCode)

ProcessEndedRetry(p, st) ==
    /\ p \in procs
    /\ procs' = IF ExitCodeTruthy(st)
                THEN (procs \ {p}) \cup {[p EXCEPT !.idx = 0]}
                ELSE procs \ {p}
    /\ console' = IF ExitCodeTruthy(st)
                  THEN Line("gerrit status: ERROR:", <<IntToStr(st.exitCode)>>)
                  ELSE Line("gerrit status: OK", <<>>)
    /\ lastStatus' = st
    /\ UNCHANGED <<config, nbuilds, call, host>>

ProcessEndedDisables(p, st) ==
    /\ p \in procs
    /\ procs' = procs \ {p}
    /\ console' = IF ExitCodeTruthy(st)
                  THEN Line("gerrit status: ERROR:", <<IntToStr(st.exitCode)>>)
                  ELSE Line("gerrit status: OK", <<>>)
    /\ lastStatus' = st
    /\ gerritport' = IF ExitCodeTruthy(st) THEN 0 ELSE gerritport
    /\ UNCHANGED <<gerritserver, username, nbuilds, call, host>>

ProcessEndedShared(p, st) ==
    /\ p \in procs
    /\ procs' = {q \in procs : q.build /= p.build}
    /\ console' = IF ExitCodeTruthy(st)
                  THEN Line("gerrit status: ERROR:", <<IntToStr(st.exitCode)>>)
                  ELSE Line("gerrit status: OK", <<>>)
    /\ lastStatus' = st
    /\ UNCHANGED <<config, nbuilds, call, host>>

ProcessEnded(p, st) ==
    /\ p \in procs
    /\ procs' = procs \ {p}
    /\ console' = IF ExitCodeTruthy(st)
                  THEN Line("gerrit status: ERROR:", <<IntToStr(st.exitCode)>>)
                  ELSE Line("gerrit status: OK", <<>>)
    /\ lastStatus' = st
    /\ UNCHANGED <<config, nbuilds, call, host>>

(***************************************************************************)
(* The receiver as a service of the host, lines 69-76.                     *)
(***************************************************************************)
Builders == {"b1", "b2"}

SetServiceParentTwice(p) ==
    /\ parent = "None"
    /\ console' = Line("Starting up.", <<>>)
    /\ parent' = p
    /\ watchers' = watchers + 2
    /\ UNCHANGED <<config, nbuilds, call, procs, lastStatus, answers>>

\* setServiceParent, lines 69-73; the host attaches a receiver that has no
\* parent
SetServiceParent(p) ==
    /\ parent = "None"
    /\ console' = Line("Starting up.", <<>>)
    /\ parent' = p
    /\ watchers' = watchers + 1
    /\ UNCHANGED <<config, nbuilds, call, procs, lastStatus, answers>>

\* The host stops the parent service.  The receiver does not override the
\* teardown of its base class, which is not part of this file: by the
\* specification the subscription is torn down with the parent service.
Teardown ==
    /\ parent /= "None"
    /\ parent' = "None"
    /\ watchers' = 0
    /\ UNCHANGED <<config, nbuilds, call, procs, console, lastStatus, answers>>

BuilderAddedRebinds(name) ==
    /\ answers' = answers \cup {<<name, "self">>}
    /\ username' = <<name>>
    /\ UNCHANGED <<gerritserver, gerritport, nbuilds, call, procs, console,
                   lastStatus, parent, watchers>>

BuilderAddedWhenAttached(name) ==
    /\ answers' = answers \cup {<<name, IF parent = "None" THEN "None" ELSE "self">>}
    /\ UNCHANGED <<config, nbuilds, call, procs, console, lastStatus,
                   parent, watchers>>

\* builderAdded, lines 75-76: return self
BuilderAdded(name) ==
    /\ answers' = answers \cup {<<name, "self">>}
    /\ UNCHANGED <<config, nbuilds, call, procs, console, lastStatus,
                   parent, watchers>>

(***************************************************************************)
(* GerritStatusPush("host", "user"), lines 37-51, before any event.        *)
(***************************************************************************)
Init ==
    /\ gerritserver = <<"h", "o", "s", "t">>
    /\ username = <<"u", "s", "e", "r">>
    /\ gerritport = DefaultPort
    /\ nbuilds = 0
    /\ call = [build |-> 0, prop |-> PropAbsent, result |-> NoResult,
               trace |-> <<>>, outcome |-> "none"]
    /\ procs = {}
    /\ console = Line("", <<>>)
    /\ lastStatus = NoStatus
    /\ parent = "None"
    /\ watchers = 0
    /\ answers = {}

BuildFinishedEvent ==
    \E prop \in PropsOf(ScenarioLists), res \in ScenarioResults :
        \E failAt \in 0..Len(prop.list) : BuildFinished(prop, res, failAt)

OutReceivedEvent == \E p \in procs, data \in Chunks : OutReceived(p, data)
ErrReceivedEvent == \E p \in procs, data \in Chunks : ErrReceived(p, data)
ProcessEndedEvent == \E p \in procs, st \in Statuses : ProcessEnded(p, st)

Next ==
    \/ BuildFinishedEvent
    \/ OutReceivedEvent
    \/ ErrReceivedEvent
    \/ ProcessEndedEvent

Spec == Init /\ [][Next]_vars

(***************************************************************************)
(* One build-finished event on a fresh receiver, over the richer inputs.   *)
(***************************************************************************)
FirstBuildOfLists ==
    \E prop \in PropsOf(DownloadLists), res \in PolicyResults :
        \E failAt \in 0..Len(prop.list) :
            nbuilds = 0 /\ BuildFinished(prop, res, failAt)

FirstBuildOfToken ==
    \E l \in TokenLists, m \in Messages :
        \E failAt \in 0..Len(l) :
            nbuilds = 0 /\ BuildFinished(PropList(l), Result(m, 0, 0), failAt)

FirstBuildOfMessage ==
    \E m \in RichMessages, v \in Scores, r \in Scores :
        nbuilds = 0 /\ BuildFinished(PropList(<<TokA>>), Result(m, v, r), 0)

NextOne ==
    \/ FirstBuildOfLists
    \/ FirstBuildOfToken
    \/ FirstBuildOfMessage
    \/ OutReceivedEvent
    \/ ErrReceivedEvent
    \/ ProcessEndedEvent

SpecOne == Init /\ [][NextOne]_vars

(***************************************************************************)
(* The life of the receiver in the host: attached, announced builders,     *)
(* builds and processes, teardown.                                         *)
(***************************************************************************)
LifeLists == {<<TokA>>, <<TokC, TokA>>}
LifeResults == {Result(S_OK, 0, 0), Result(S_OK, 1, 0)}

LifeBuildFinished ==
    \E prop \in PropsOf(LifeLists), res \in LifeResults :
        \E failAt \in 0..Len(prop.list) : BuildFinished(prop, res, failAt)

SetServiceParentEvent == SetServiceParent("master")
BuilderAddedEvent == \E name \in Builders : BuilderAdded(name)

NextLife ==
    \/ SetServiceParentEvent
    \/ Teardown
    \/ BuilderAddedEvent
    \/ LifeBuildFinished
    \/ OutReceivedEvent
    \/ ErrReceivedEvent
    \/ ProcessEndedEvent

SpecLife == Init /\ [][NextLife]_vars

(***************************************************************************)
(* A receiver constructed with the default message policy.                 *)
(***************************************************************************)
BuilderNames == {<<"b", "1">>, <<"b", "2">>}
BuildNumbers == {12}
ResultCodes == {0, 2}
DefaultLists == {<<TokA, TokB>>, <<TokC, TokA>>}

DefaultBuildFinished ==
    \E prop \in PropsOf(DefaultLists), name \in BuilderNames,
       number \in BuildNumbers, results \in ResultCodes :
        \E failAt \in 0..Len(prop.list) :
            BuildFinished(prop, defaultMessageCB(name, number, results), failAt)

NextDefault ==
    \/ DefaultBuildFinished
    \/ OutReceivedEvent
    \/ ErrReceivedEvent
    \/ ProcessEndedEvent

SpecDefault == Init /\ [][NextDefault]_vars

(***************************************************************************)
(* Vocabulary of the properties.                                           *)
(***************************************************************************)
IsSpawn(e) == e.ev = "spawnProcess"
Spawns == SelectSeq(call.trace, IsSpawn)
SpawnedAt(i) == \E k \in 1..Len(call.trace) :
                    IsSpawn(call.trace[k]) /\ call.trace[k].idx = i
Handled == call.build > 0
HasList == Handled /\ call.prop.kind = "list"
ProcsOf(b) == {p \in procs : p.build = b}
Final(cmd) == cmd[Len(cmd)]
ProjectOf(cmd) == cmd[8]

\* a token with at least two space-separated fields
WellFormed(t) == \E k \in 1..Len(t) : t[k] = " "

\* C1: when the "downloads" property is absent or None, buildFinished does
\* not invoke the message policy, builds and prints no command, spawns no
\* process, and returns normally.
C1_NoDownloadsNoCommand ==
    (Handled /\ call.prop.kind \in {"absent", "none"}) =>
        /\ call.trace = <<>>
        /\ call.outcome = "returned"
        /\ ProcsOf(call.build) = {}

\* a None property handled while processes of an earlier build are in flight
C1_Witness ==
    /\ Handled
    /\ call.prop.kind = "none"
    /\ call.outcome = "returned"
    /\ procs /= {}

\* C2: no exception propagates out of buildFinished, whatever the downloads,
\* the policy result and the spawn outcome.
C2_NoExceptionPropagates == call.outcome \in {"none", "returned"}

\* C3: a token lacking a second field gets no command and every well-formed
\* token of the same list, before and after it, gets its command spawned
\* (stated for the calls in which nothing else fails: zero scores, no spawn
\* failure).
C3_MalformedTokenSkipped ==
    (HasList /\ call.outcome \notin {"TypeError", "OSError"}) =>
        \A i \in 1..Len(call.prop.list) :
            SpawnedAt(i) <=> WellFormed(call.prop.list[i])

\* C4 as claimed: with downloads ["projA 12345/3", "projB bad"] no command is
\* issued for the "projB bad" token, and a call that returns has issued
\* exactly one command, for projA with change-id 12345.
C4_ScenarioB_Original ==
    (HasList /\ call.prop.list = <<TokA, TokB>>) =>
        /\ ~SpawnedAt(2)
        /\ call.outcome = "returned" =>
              /\ Len(Spawns) = 1
              /\ ProjectOf(Spawns[1].cmd) = S_projA
              /\ Final(Spawns[1].cmd) = S_12345

\* C4 amended: with downloads ["projA 12345/3", "projB bad"] the commands
\* issued are, in order, the one for projA with change-id 12345 and the one
\* for projB with change-id bad; "projB bad" is never rejected as malformed
\* (no ValueError), and the call issues fewer than the two commands only when
\* it raises TypeError (a non-zero score) or a spawn fails.
C4_ScenarioB ==
    (HasList /\ call.prop.list = <<TokA, TokB>>) =>
        /\ call.outcome \in {"returned", "TypeError", "OSError"}
        /\ \A k \in 1..Len(Spawns) : Spawns[k].idx = k
        /\ Len(Spawns) >= 1 => /\ ProjectOf(Spawns[1].cmd) = S_projA
                               /\ Final(Spawns[1].cmd) = S_12345
        /\ Len(Spawns) >= 2 => /\ ProjectOf(Spawns[2].cmd) = S_projB
                               /\ Final(Spawns[2].cmd) = S_bad
        /\ call.outcome = "returned" <=> Len(Spawns) = 2
        /\ call.outcome = "TypeError" <=>
               (call.result.verified /= 0 \/ call.result.reviewed /= 0)

C4_Witness ==
    /\ HasList
    /\ call.prop.list = <<TokA, TokB>>
    /\ call.outcome = "returned"
    /\ Len(Spawns) = 2
    /\ Final(Spawns[2].cmd) = S_bad

\* the part of a patch before its first "/", found by position
BeforeSlash(patch) ==
    LET cut == {k \in 1..Len(patch) : patch[k] = "/"}
    IN  IF cut = {} THEN patch
        ELSE SubSeq(patch, 1, (CHOOSE k \in cut : \A j \in cut : k <= j) - 1)

\* C5: for a token "<proj> <patch>" (one space, between two space-free
\* fields) the command issued for it has <proj> right after --project and,
\* as its last argument, the part of <patch> before its first "/".
C5_ProjectAndChangeId ==
    HasList =>
        \A k \in 1..Len(Spawns) :
            LET t == call.prop.list[Spawns[k].idx]
                cmd == Spawns[k].cmd
            IN  \A sp \in 1..Len(t) :
                    (t[sp] = " " /\ \A j \in 1..Len(t) : t[j] = " " => j = sp) =>
                        /\ cmd[7] = S_project
                        /\ ProjectOf(cmd) = SubSeq(t, 1, sp - 1)
                        /\ Final(cmd) = BeforeSlash(SubSeq(t, sp + 1, Len(t)))

\* a command issued for the token "a 7/" : project a, change-id 7
C5_Witness ==
    /\ HasList
    /\ call.prop.list = << <<"a", " ", "7", "/">> >>
    /\ Len(Spawns) = 1
    /\ ProjectOf(Spawns[1].cmd) = <<"a">>
    /\ Final(Spawns[1].cmd) = <<"7">>

S_message == <<"-", "-", "m", "e", "s", "s", "a", "g", "e">>
IsPrefix(a, b) == Len(a) <= Len(b) /\ SubSeq(b, 1, Len(a)) = a
HasMessage(cmd) == \E k \in 9..(Len(cmd) - 1) : IsPrefix(S_message, cmd[k])
HasFlag(cmd, flag) == \E k \in 9..(Len(cmd) - 1) : cmd[k] = flag
FlagValue(cmd, flag) ==
    cmd[(CHOOSE k \in 9..(Len(cmd) - 1) : cmd[k] = flag) + 1]
CommandAt(i) ==
    call.trace[CHOOSE k \in 1..Len(call.trace) :
                   IsSpawn(call.trace[k]) /\ call.trace[k].idx = i].cmd

\* C6: for every policy result and every well-formed token a command is
\* issued, with --message iff the message is non-empty, --verified <n> iff
\* verified /= 0 and --code-review <n> iff reviewed /= 0 (stated for the
\* calls whose tokens are all well-formed and whose spawns do not fail).
C6_FlagsFollowScores ==
    (/\ HasList
     /\ call.outcome /= "OSError"
     /\ \A i \in 1..Len(call.prop.list) : WellFormed(call.prop.list[i])) =>
        \A i \in 1..Len(call.prop.list) :
            /\ SpawnedAt(i)
            /\ LET cmd == CommandAt(i)
                   res == call.result
               IN  /\ HasMessage(cmd) <=> res.message /= <<>>
                   /\ HasFlag(cmd, S_verified) <=> res.verified /= 0
                   /\ HasFlag(cmd, S_verified) =>
                          FlagValue(cmd, S_verified) = IntToStr(res.verified)
                   /\ HasFlag(cmd, S_codeReview) <=> res.reviewed /= 0
                   /\ HasFlag(cmd, S_codeReview) =>
                          FlagValue(cmd, S_codeReview) = IntToStr(res.reviewed)

\* C7: Scenario A: downloads ["projA 12345/3"] and a policy returning
\* ("OK", 1, 0) give exactly one command, with argument vector
\* ssh user@host -p 29418 gerrit review --project projA --message 'OK'
\* --verified 1 12345, every flag and every value an element of its own.
C7_ScenarioA ==
    (/\ HasList
     /\ call.prop.list = <<TokA>>
     /\ call.result = Result(S_OK, 1, 0)
     /\ call.outcome /= "OSError") =>
        /\ Len(Spawns) = 1
        /\ Spawns[1].cmd =
               <<S_ssh, <<"u", "s", "e", "r", "@", "h", "o", "s", "t">>, S_p,
                 <<"2", "9", "4", "1", "8">>, S_gerrit, S_review, S_project,
                 S_projA, S_message, <<"'", "O", "K", "'">>, S_verified,
                 <<"1">>, S_12345>>

\* The remote endpoint: ssh sends the arguments after the host joined by
\* single spaces, and the remote side splits that line into words at blanks
\* outside single quotes; a quote toggles quoting and is removed.
RECURSIVE JoinSpaces(_)
JoinSpaces(args) ==
    IF Len(args) = 0 THEN <<>>
    ELSE IF Len(args) = 1 THEN args[1]
    ELSE args[1] \o <<" ">> \o JoinSpaces(Tail(args))

RECURSIVE ShellScan(_, _, _, _, _, _)
ShellScan(s, i, quoted, inWord, cur, acc) ==
    IF i > Len(s)
    THEN [words |-> IF inWord THEN Append(acc, cur) ELSE acc, closed |-> ~quoted]
    ELSE IF s[i] = "'"
         THEN ShellScan(s, i + 1, ~quoted, TRUE, cur, acc)
         ELSE IF ~quoted /\ s[i] \in {" ", "\t"}
              THEN ShellScan(s, i + 1, FALSE, FALSE, <<>>,
                             IF inWord THEN Append(acc, cur) ELSE acc)
              ELSE ShellScan(s, i + 1, quoted, TRUE, Append(cur, s[i]), acc)

RemoteWords(cmd) == ShellScan(JoinSpaces(SubSeq(cmd, 5, Len(cmd))), 1,
                              FALSE, FALSE, <<>>, <<>>)
Plain(w) == w /= <<>> /\ \A k \in 1..Len(w) : w[k] \notin {" ", "\t", "'"}

\* C8: for every message text the message argument is quoted so that the
\* remote endpoint reads the message as exactly one word and nothing of it
\* as a further word (stated for plain project and change-id).
C8_MessageIsOneWord ==
    HasList =>
        \A k \in 1..Len(Spawns) :
            LET cmd == Spawns[k].cmd
                m == call.result.message
            IN  (StrTruthy(m) /\ Plain(ProjectOf(cmd)) /\ Plain(Final(cmd))) =>
                    /\ RemoteWords(cmd).closed
                    /\ RemoteWords(cmd).words =
                           <<S_gerrit, S_review, S_project, ProjectOf(cmd),
                             S_message, m, Final(cmd)>>

\* a message with a blank in it does arrive as one word
C8_BlankMessageIsOneWord ==
    /\ HasList
    /\ call.result.message = <<"m", " ">>
    /\ Len(Spawns) = 1
    /\ RemoteWords(Spawns[1].cmd).words[6] = <<"m", " ">>

PolicyCalls == {k \in 1..Len(call.trace) : call.trace[k].ev = "messageCB"}
MessagePart(cmd) == SubSeq(cmd, 9, Len(cmd) - 1)

\* C9: when the downloads property holds a list, the message policy is
\* invoked exactly once, before anything is printed or spawned, and every
\* command of the build carries the message of that one result.
C9_PolicyOnceBeforeSpawns ==
    HasList =>
        /\ PolicyCalls = {1}
        /\ \A k \in 1..Len(Spawns) :
               MessagePart(Spawns[k].cmd) =
                   IF call.result.message = <<>> THEN <<>>
                   ELSE <<S_messageOpen \o call.result.message \o S_quote>>

C9_Witness ==
    /\ HasList
    /\ Len(Spawns) = 2
    /\ call.result.message = S_OK
    /\ MessagePart(Spawns[1].cmd) = MessagePart(Spawns[2].cmd)
    /\ MessagePart(Spawns[1].cmd) /= <<>>

\* C10: a buildFinished call spawns at most one process per token of its
\* downloads list, so never more processes than tokens, and over the whole
\* run no (build, token position) pair has two processes.
C10_AtMostOneSpawnPerToken ==
    /\ HasList =>
          /\ Len(Spawns) <= Len(call.prop.list)
          /\ \A j, k \in 1..Len(Spawns) : Spawns[j].idx = Spawns[k].idx => j = k
          /\ \A k \in 1..Len(Spawns) : Spawns[k].idx \in 1..Len(call.prop.list)
    /\ \A p, q \in procs : (p.build = q.build /\ p.idx = q.idx) => p = q
    /\ \A p \in procs : p.build \in 1..nbuilds
    /\ Cardinality(ProcsOf(call.build)) <= Len(call.prop.list)

\* two builds, each with processes in flight, the last having spawned one
\* process for each of its two tokens
C10_Witness ==
    /\ nbuilds = 2
    /\ ProcsOf(1) /= {}
    /\ Cardinality(ProcsOf(2)) = 2
    /\ Len(Spawns) = 2
    /\ Len(call.prop.list) = 2

ReportedOK == console.tag = "gerrit status: OK"
ReportedError == console.tag = "gerrit status: ERROR:"

\* C11: when a process terminates, processEnded reports success if and only
\* if its exit code is 0; a non-zero exit code and a termination by a signal
\* (no exit code) are reported as errors.
C11_SuccessOnlyOnExitZero ==
    (ReportedOK \/ ReportedError) => (ReportedOK <=> lastStatus = Exit(0))

\* an exit code of 1 is reported as an error
C11_ExitOneIsError == ReportedError /\ lastStatus = Exit(1)

\* C12: processes are spawned only inside buildFinished, for the build being
\* handled: no outReceived, errReceived or processEnded step, whatever the
\* exit status, adds a process.
C12_NoRetry ==
    [][(procs' \ procs /= {}) =>
           /\ nbuilds' = nbuilds + 1
           /\ \A p \in procs' \ procs : p.build = nbuilds']_vars

\* a process has failed with exit code 1 and nothing is in flight
C12_Witness ==
    /\ ReportedError
    /\ lastStatus = Exit(1)
    /\ nbuilds >= 1
    /\ procs = {}

\* the fields of a token, found by the positions of its spaces
SpacesOf(t) == {k \in 1..Len(t) : t[k] = " "}
MinOf(S) == CHOOSE k \in S : \A j \in S : k <= j
FieldOne(t) == SubSeq(t, 1, MinOf(SpacesOf(t)) - 1)
FieldTwo(t) ==
    LET s1 == MinOf(SpacesOf(t))
        rest == {k \in SpacesOf(t) : k > s1}
    IN  SubSeq(t, s1 + 1, IF rest = {} THEN Len(t) ELSE MinOf(rest) - 1)

\* the command of a receiver built for user@host with the default port
FreshCommand(t, m) ==
    <<S_ssh, <<"u", "s", "e", "r", "@", "h", "o", "s", "t">>, S_p,
      <<"2", "9", "4", "1", "8">>, S_gerrit, S_review, S_project, FieldOne(t)>>
    \o (IF m = <<>> THEN <<>> ELSE <<S_messageOpen \o m \o S_quote>>)
    \o <<BeforeSlash(FieldTwo(t))>>

AllWellFormed == \A i \in 1..Len(call.prop.list) : WellFormed(call.prop.list[i])
ZeroScores == call.result.verified = 0 /\ call.result.reviewed = 0

\* C13: Scenario D: a process ending with exit code 1 is only reported: the
\* step changes neither the configuration nor the subscription nor the record
\* of the handler, and a buildFinished event with well-formed downloads
\* handled after it issues, for each token, the command a fresh receiver
\* issues.
C13_FailureLeavesReceiverOperable ==
    /\ [](/\ gerritport = DefaultPort
          /\ (lastStatus = Exit(1) /\ HasList /\ AllWellFormed /\ ZeroScores) =>
                /\ call.outcome \in {"returned", "OSError"}
                /\ \A k \in 1..Len(Spawns) :
                       /\ Spawns[k].idx = k
                       /\ Spawns[k].cmd =
                              FreshCommand(call.prop.list[k], call.result.message)
                /\ call.outcome = "returned" => Len(Spawns) = Len(call.prop.list))
    /\ [][(procs' /= procs /\ procs' \subseteq procs) =>
              UNCHANGED <<config, host, nbuilds, call>>]_vars

\* exit code 1 was reported, and the second build, handled after it, has
\* issued both its commands: its last command is the last line printed
C13_Witness ==
    /\ lastStatus = Exit(1)
    /\ console.tag = "command"
    /\ call.build = 2
    /\ call.prop.list = <<TokA, TokB>>
    /\ call.outcome = "returned"
    /\ Len(Spawns) = 2
    /\ console.text = Spawns[2].cmd

\* C14: buildFinished does not wait for its processes: the step that handles
\* a build ends with every process it spawned running and leaves the
\* processes of earlier builds as they are; and a step of one process's
\* protocol (output, error output, termination) removes at most that one
\* process, changes no other process and no command, and the outcome it
\* reports depends on that termination's status alone.
C14_RunsAreIndependent ==
    /\ [][nbuilds' = nbuilds + 1 =>
              /\ procs \subseteq procs'
              /\ call'.outcome /= "none"
              /\ procs' \ procs =
                     {[build |-> nbuilds', idx |-> call'.trace[k].idx,
                       cmd |-> call'.trace[k].cmd] :
                          k \in {j \in 1..Len(call'.trace) : IsSpawn(call'.trace[j])}}]_vars
    /\ [][nbuilds' = nbuilds =>
              /\ procs' \subseteq procs
              /\ Cardinality(procs \ procs') <= 1
              /\ call' = call
              /\ procs' /= procs =>
                     /\ console'.tag \in {"gerrit status: OK", "gerrit status: ERROR:"}
                     /\ console'.tag = "gerrit status: ERROR:" <=>
                            ExitCodeTruthy(lastStatus')
              /\ procs' = procs =>
                     console'.tag \in {"gerritout:", "gerriterr:"}]_vars

\* the second build has returned with both its processes running while a
\* process of the first build is still running and has just written output
C14_Witness ==
    /\ nbuilds = 2
    /\ call.outcome = "returned"
    /\ Len(Spawns) = 2
    /\ Cardinality(ProcsOf(2)) = 2
    /\ ProcsOf(1) /= {}
    /\ console.tag = "gerritout:"

Detached == parent = "None" /\ watchers = 0
Attached == parent /= "None" /\ watchers = 1

\* C15: the receiver is either Detached (no parent, not subscribed) or
\* Attached (a parent, subscribed exactly once); the only steps that change
\* this are setServiceParent, from Detached to Attached, and the host's
\* teardown, from Attached to Detached: no builderAdded, buildFinished or
\* process step changes the parent or the subscription.
C15_DetachedOrAttached ==
    /\ [](Detached \/ Attached)
    /\ [][(parent' /= parent \/ watchers' /= watchers) =>
              /\ UNCHANGED <<nbuilds, call, procs, answers>>
              /\ \/ Detached /\ Attached' /\ console'.tag = "Starting up."
                 \/ Attached /\ Detached' /\ console' = console]_vars

\* attached, a build and a builder announcement having been handled
C15_Witness ==
    /\ Attached
    /\ console.tag = "Starting up."
    /\ nbuilds >= 1
    /\ answers /= {}

\* C16: builderAdded returns the receiver itself for every builder the host
\* announces, in any state.
C16_EveryBuilderOptedIn == \A a \in answers : a[2] = "self"

\* both builders were announced, one of them at least while detached after a
\* build
C16_Witness ==
    /\ answers = {<<"b1", "self">>, <<"b2", "self">>}
    /\ Detached
    /\ nbuilds >= 1

DefaultShaped(cmd) ==
    /\ Len(cmd) = 10
    /\ HasMessage(cmd)
    /\ ~HasFlag(cmd, S_verified)
    /\ ~HasFlag(cmd, S_codeReview)

\* C17: with the default message policy the result of every call has a
\* non-empty message and both scores 0, no call raises TypeError, and every
\* command issued, over any sequence of events, contains --message and
\* neither --verified nor --code-review.
C17_DefaultPolicyCommands ==
    /\ HasList =>
          /\ call.result.message /= <<>>
          /\ ZeroScores
          /\ call.outcome /= "TypeError"
          /\ \A k \in 1..Len(Spawns) : DefaultShaped(Spawns[k].cmd)
    /\ \A p \in procs : DefaultShaped(p.cmd)

\* two builds under the default policy with commands of both in flight
C17_Witness ==
    /\ nbuilds = 2
    /\ ProcsOf(1) /= {}
    /\ Len(Spawns) = 2
    /\ Cardinality(ProcsOf(2)) = 2
    /\ DefaultShaped(Spawns[2].cmd)

OneToken == HasList /\ Len(call.prop.list) = 1 /\ ZeroScores
                    /\ call.outcome /= "OSError"

\* C18 as claimed: tokens are split on whitespace: a token with at least two
\* blank-separated fields (blanks being spaces and tabs, in runs, leading
\* ones ignored) gets a command with the first field as project and the
\* second field's part before "/" as change-id.
C18_WhitespaceSplit_Original ==
    OneToken =>
        LET f == WsFields(call.prop.list[1])
        IN  Len(f) >= 2 =>
                /\ Len(Spawns) = 1
                /\ ProjectOf(Spawns[1].cmd) = f[1]
                /\ Final(Spawns[1].cmd) = BeforeSlash(f[2])

\* C18 amended: tokens are split at every single space character and at
\* nothing else: a token without a space raises ValueError (a tab does not
\* separate), otherwise the project is the text before the first space and
\* the patch the text between the first and the second space (or the end),
\* both possibly empty, and the fields after the second are ignored.
C18_SingleSpaceSplit ==
    OneToken =>
        LET t == call.prop.list[1]
        IN  IF SpacesOf(t) = {}
            THEN call.outcome = "ValueError" /\ Len(Spawns) = 0
            ELSE /\ call.outcome = "returned"
                 /\ Len(Spawns) = 1
                 /\ ProjectOf(Spawns[1].cmd) = FieldOne(t)
                 /\ Final(Spawns[1].cmd) = BeforeSlash(FieldTwo(t))

\* "a  7" (two spaces): project a, and an empty change-id
C18_Witness ==
    /\ OneToken
    /\ call.prop.list[1] = <<"a", " ", " ", "7">>
    /\ Len(Spawns) = 1
    /\ ProjectOf(Spawns[1].cmd) = <<"a">>
    /\ Final(Spawns[1].cmd) = <<>>

\* C19: the configuration captured at construction (server address, user
\* name, port) is read-only: it has its constructed value in every state and
\* no step of the receiver (attach, teardown, builderAdded, buildFinished,
\* outReceived, errReceived, processEnded), in any interleaving, changes it.
C19_ConfigurationReadOnly ==
    /\ [](/\ gerritserver = <<"h", "o", "s", "t">>
          /\ username = <<"u", "s", "e", "r">>
          /\ gerritport = DefaultPort)
    /\ [][UNCHANGED config]_vars

\* builders were announced, two builds were handled, a process has ended and
\* another has just written to its error output
C19_Witness ==
    /\ answers /= {}
    /\ parent = "master"
    /\ nbuilds = 2
    /\ lastStatus /= NoStatus
    /\ console.tag = "gerriterr:"
    /\ gerritport = DefaultPort

Raised == call.outcome \in {"ValueError", "TypeError", "OSError"}

\* C20: a downloads list is processed in order and not atomically: the k-th
\* command spawned is the one of the k-th token; a handler that returns has
\* spawned one command per token; a handler that stops with an error at
\* position k has spawned exactly the commands of the positions before k
\* (position k being the first token without a second field, the first token
\* when it has two fields and a score is non-zero, or the position at which
\* spawning failed); and the step of the handler ends with all of these processes
\* running, along with the processes that ran before it.
C20_SequentialNotAtomic ==
    /\ [](HasList =>
            LET n == Len(Spawns)
                list == call.prop.list
            IN  /\ n <= Len(list)
                /\ \A k \in 1..n :
                       /\ Spawns[k].idx = k
                       /\ SpacesOf(list[k]) /= {}
                       /\ ProjectOf(Spawns[k].cmd) = FieldOne(list[k])
                       /\ Final(Spawns[k].cmd) = BeforeSlash(FieldTwo(list[k]))
                /\ call.outcome = "returned" => n = Len(list)
                /\ Raised =>
                       /\ n < Len(list)
                       /\ call.outcome = "ValueError" =>
                              SpacesOf(list[n + 1]) = {}
                       /\ call.outcome = "TypeError" =>
                              n = 0 /\ ~ZeroScores /\ SpacesOf(list[1]) /= {}
                       /\ call.outcome = "OSError" =>
                              /\ call.trace[Len(call.trace)].ev = "print"
                              /\ call.trace[Len(call.trace)].idx = n + 1)
    /\ [][nbuilds' = nbuilds + 1 =>
              LET spawned == SelectSeq(call'.trace, IsSpawn)
              IN  /\ procs \subseteq procs'
                  /\ \A k \in 1..Len(spawned) :
                         [build |-> nbuilds', idx |-> k, cmd |-> spawned[k].cmd]
                             \in procs'
                  /\ Cardinality(procs' \ procs) = Len(spawned)]_vars

\* "projB bad", "projC", "projA 12345/3": the handler stopped at the second
\* token with the first token's process running and nothing for the third
C20_Witness ==
    /\ HasList
    /\ call.prop.list = <<TokB, TokC, TokA>>
    /\ call.outcome = "ValueError"
    /\ Len(Spawns) = 1
    /\ ProcsOf(call.build) =
           {[build |-> call.build, idx |-> 1, cmd |-> Spawns[1].cmd]}
    /\ ProjectOf(Spawns[1].cmd) = S_projB

====
